---- MODULE Spec2Model ----
(***************************************************************************)
(* gifski: the three-stage pipeline of src/lib.rs.                         *)
(*                                                                         *)
(*   caller -> Collector -> queue (Q1) -> Writer::make_frames (Quantizer)  *)
(*          -> write_queue (Q2) -> Writer::write_frames -> sink            *)
(*                                                                         *)
(* The two OrdQueues come from `mod ordqueue`, whose file is not part of   *)
(* the sources at hand; they are modelled from the contract of the         *)
(* specification (section 4.1): a buffer of at most `capacity` items,      *)
(* push blocking while it is full, the iterator yielding index 0,1,2,...   *)
(***************************************************************************)
EXTENDS Integers, Sequences, FiniteSets, TLC

\* Largest number of frames a run submits (indices 0..MaxN-1).
MaxN == 6

\* Faulty variant: queues that never fill.
CapacityUnbounded == MaxN + 1

\* ordqueue::new(4): the capacity of both queues.
Capacity == 4

VARIABLES
    settings,       \* Settings {quality, once}; width/height unset
    input,          \* the caller's frames: index -> raw frame
    collector,      \* "alive" | "dropped"
    submitted,      \* indices add_frame_rgba has been called with
    pushing,        \* the index of a push blocked on a full Q1, or -1
    rejected,       \* indices whose add_frame_rgba returned Err
    out_of_order,   \* history: some index was submitted before a smaller one
    queue,          \* Q1 buffer: set of [idx, frame]
    queue_next,     \* Q1 iterator: next index to yield
    queue_iter,     \* Q1 consumer end alive
    mpc,            \* make_frames position
    enum_i,         \* the counter of queue_iter.enumerate()
    image,          \* the frame of the current loop iteration
    curr_frame,     \* Option<(i, image, delay)>
    next_frame,     \* Option<(i, image, delay)>
    imp_next,       \* src of the frame the importance map was last filled from
    screen,         \* None, or the frames blitted so far
    gif,            \* the GIFFrame being pushed / blitted
    kcalls,         \* the kernel invocations so far
    make_result,    \* make_frames' return value
    write_queue,    \* Q2 buffer: set of [idx, frame]
    write_next,     \* Q2 iterator: next index to yield
    write_queue_tx, \* Q2 producer end alive
    write_queue_iter, \* Q2 consumer end alive
    wpc,            \* write / write_frames position
    wframe,         \* the frame write_frames holds
    enc,            \* WriteInitState: "Uninit" | "Init"
    out,            \* what the sink received
    increases,      \* calls of reporter.increase()
    result,         \* write's return value
    pa, pb, diff,   \* colordiff: the two pixels and the value returned
    px, prior,      \* one cell of importance_map, and its value before the last update
    istep,          \* which update of the cell ran last: "none" | "next" | "prev"
    resize_io,      \* Collector::resized: source size, width, height, and the size returned
    pal_io          \* one frame's palette and the transparent index each thread derived

pipe_vars == <<settings, input, collector, submitted, pushing, rejected,
               out_of_order, queue, queue_next, queue_iter, mpc, enum_i, image, curr_frame,
               next_frame, imp_next, screen, gif, kcalls, make_result,
               write_queue, write_next, write_queue_tx, write_queue_iter, wpc,
               wframe, enc, out, increases, result>>
pix_vars == <<pa, pb, diff, px, prior, istep, resize_io, pal_io>>
vars == <<pipe_vars, pix_vars>>

----------------------------------------------------------------------------
\* Values

Indices == 0 .. (MaxN - 1)

\* Option::None for the frame slots.
NoFrame == [i |-> -1, src |-> -1, w |-> 0, h |-> 0, delay |-> 0]

\* A raw frame as the caller hands it over: src names its pixels.
RawFrame(k, w, h, d) == [src |-> k, w |-> w, h |-> h, delay |-> d]

\* CatResult<()> values.
Pending == [kind |-> "Pending", frame |-> 0, w |-> 0, h |-> 0, ew |-> 0, eh |-> 0]
Ok == [kind |-> "Ok", frame |-> 0, w |-> 0, h |-> 0, ew |-> 0, eh |-> 0]
Err(kind) == [kind |-> kind, frame |-> 0, w |-> 0, h |-> 0, ew |-> 0, eh |-> 0]

\* Faulty variant: an empty input is not reported.
NoFramesIgnored == [kind |-> "Ok", frame |-> 0, w |-> 0, h |-> 0, ew |-> 0, eh |-> 0]

\* "Found no usable frames to encode"
NoFramesError == Err("Found no usable frames to encode")

\* Largest width and height of the frames handed to Collector::resized.
MaxDim == 4

\* Option<u32>
None == [some |-> FALSE, v |-> 0]
Some(x) == [some |-> TRUE, v |-> x]

\* No call of Collector::resized under way.
NoResize == [w |-> 0, h |-> 0, width |-> None, height |-> None, done |-> FALSE,
             ow |-> 0, oh |-> 0]

\* The pixel of the colordiff checks at rest.
Black == [r |-> 0, g |-> 0, b |-> 0, a |-> 255]

\* vec![255u8; ..]: a cell of the importance map before any update
\* No palette under consideration.
NoPalette == [pal |-> <<>>, writer |-> None, blit |-> None, wdone |-> FALSE,
              bdone |-> FALSE]

map_at_rest ==
    /\ px = 255
    /\ prior = 255
    /\ istep = "none"
    /\ resize_io = NoResize
    /\ pal_io = NoPalette

----------------------------------------------------------------------------
\* OrdQueue (mod ordqueue), from its contract

\* push blocks while `capacity` items are buffered.
ordqueue_full(buf) == Cardinality(buf) >= Capacity

\* The iterator yields the item with the next expected index once it is there.
ordqueue_ready(buf, nxt) == \E it \in buf : it.idx = nxt

ordqueue_item(buf, nxt) == CHOOSE it \in buf : it.idx = nxt

\* All producer handles dropped: the iterator ends once the next index is absent.
ordqueue_ended(buf, nxt, tx) == ~ordqueue_ready(buf, nxt) /\ ~tx

----------------------------------------------------------------------------
\* Inputs

\* Settings of new(): quality 1..=100, once.
SettingsSet == [quality : {1, 100}, once : BOOLEAN]

\* The frames that are 8x4 instead of 8x8: none, one frame, or every odd one.
OddSizedSets == {S \in SUBSET Indices : Cardinality(S) <= 1}
                  \cup {{k \in Indices : k % 2 = 1}}

\* delay of frame k in GIF units
DelaySchemes == {[k \in Indices |-> 10 + k], [k \in Indices |-> 2]}

Inputs == {[k \in Indices |-> RawFrame(k, 8, IF k \in S THEN 4 ELSE 8, d[k])] :
              S \in OddSizedSets, d \in DelaySchemes}

----------------------------------------------------------------------------
\* Collector

\* Faulty variant: the target width is not capped by the source's.
resized_size_uncapped(w, h, width, height) ==
    IF width.some
    THEN <<width.v,
           IF height.some
           THEN (IF height.v < h THEN height.v ELSE h)
           ELSE (h * width.v) \div w>>
    ELSE <<w, h>>

\* Collector::resized: the size of the image returned for a w x h source
resized_size(w, h, width, height) ==
    IF width.some
    THEN LET dst_width == IF width.v < w THEN width.v ELSE w
             dst_height == IF height.some
                           THEN (IF height.v < h THEN height.v ELSE h)
                           ELSE (h * dst_width) \div w
         IN <<dst_width, dst_height>>
    ELSE <<w, h>>

\* Collector::resized with self.width and self.height unset, as new() leaves
\* them for the Settings of the pipeline runs
resized(img) ==
    [img EXCEPT !.w = resized_size(img.w, img.h, None, None)[1],
                !.h = resized_size(img.w, img.h, None, None)[2]]

\* settings.width / settings.height
Targets == {None} \cup {Some(x) : x \in 0 .. (MaxDim + 1)}

\* self.queue.push(frame_index, Ok((resized(image), delay))), once it can proceed
queue_push(k) ==
    /\ pushing' = -1
    /\ IF ~queue_iter
       THEN /\ rejected' = rejected \cup {k}
            /\ queue' = queue
       ELSE /\ queue' = queue \cup {[idx |-> k, frame |-> resized(input[k])]}
            /\ rejected' = rejected

add_frame_rgba(k) ==
    /\ collector = "alive"
    /\ pushing = -1
    /\ k \notin submitted
    /\ submitted' = submitted \cup {k}
    /\ out_of_order' = (out_of_order \/ \E j \in 0 .. (k - 1) : j \notin submitted)
    /\ IF queue_iter /\ ordqueue_full(queue)
       THEN pushing' = k /\ UNCHANGED <<queue, rejected>>
       ELSE queue_push(k)
    /\ UNCHANGED <<settings, input, collector, queue_next, queue_iter, mpc,
                   enum_i, image, curr_frame, next_frame, imp_next, screen, gif,
                   kcalls, make_result, write_queue, write_next, write_queue_tx,
                   write_queue_iter, wpc, wframe, enc, out, increases, result,
                   pix_vars>>

\* A push blocked on the full queue wakes up: room was made or the consumer is gone.
add_frame_wake ==
    /\ pushing # -1
    /\ ~(queue_iter /\ ordqueue_full(queue))
    /\ queue_push(pushing)
    /\ UNCHANGED <<settings, input, collector, submitted, out_of_order,
                   queue_next, queue_iter, mpc, enum_i, image, curr_frame, next_frame, imp_next, screen,
                   gif, kcalls, make_result, write_queue, write_next,
                   write_queue_tx, write_queue_iter, wpc, wframe, enc, out,
                   increases, result, pix_vars>>

\* drop(collector): the only producer handle of Q1 goes away.
drop_collector ==
    /\ collector = "alive"
    /\ pushing = -1
    /\ collector' = "dropped"
    /\ UNCHANGED <<settings, input, submitted, pushing, rejected, out_of_order,
                   queue, queue_next, queue_iter, mpc, enum_i, image, curr_frame,
                   next_frame, imp_next, screen, gif, kcalls, make_result,
                   write_queue, write_next, write_queue_tx, write_queue_iter,
                   wpc, wframe, enc, out, increases, result, pix_vars>>

----------------------------------------------------------------------------
\* Writer::make_frames (the Quantizer thread)

coll_vars == <<collector, submitted, pushing, rejected, out_of_order>>
env_vars == <<settings, input>>
q2_vars == <<write_queue, write_next>>
write_vars == <<wpc, wframe, enc, out, increases, result>>

\* decode_iter.next(): the (i, image, delay) of queue_iter.enumerate().map(..)
decoded(item) == [i |-> enum_i, src |-> item.frame.src, w |-> item.frame.w,
                  h |-> item.frame.h, delay |-> item.frame.delay]

\* make_frames returns: its queue_iter and write_queue are dropped with it.
make_return(res) ==
    /\ make_result' = res
    /\ mpc' = "done"
    /\ queue_iter' = FALSE
    /\ write_queue_tx' = FALSE

\* let mut curr_frame = if let Some(a) = decode_iter.next() {..} else {Err(..)?}
make_frames_first ==
    /\ mpc = "first"
    /\ \/ /\ ordqueue_ready(queue, queue_next)
          /\ curr_frame' = decoded(ordqueue_item(queue, queue_next))
          /\ queue' = queue \ {ordqueue_item(queue, queue_next)}
          /\ queue_next' = queue_next + 1
          /\ enum_i' = enum_i + 1
          /\ mpc' = "second"
          /\ UNCHANGED <<make_result, queue_iter, write_queue_tx>>
       \/ /\ ordqueue_ended(queue, queue_next, collector = "alive")
          /\ make_return(NoFramesError)
          /\ UNCHANGED <<curr_frame, queue, queue_next, enum_i>>
    /\ UNCHANGED <<env_vars, coll_vars, image, next_frame, imp_next, screen, gif,
                   kcalls, q2_vars, write_queue_iter, write_vars, pix_vars>>

\* let mut next_frame = decode_iter.next(); then the head of the first
\* iteration: image = curr_frame.take(); curr_frame = next_frame.take()
make_frames_second ==
    /\ mpc = "second"
    /\ image' = curr_frame
    /\ next_frame' = NoFrame
    /\ mpc' = "fetch"
    /\ \/ /\ ordqueue_ready(queue, queue_next)
          /\ curr_frame' = decoded(ordqueue_item(queue, queue_next))
          /\ queue' = queue \ {ordqueue_item(queue, queue_next)}
          /\ queue_next' = queue_next + 1
          /\ enum_i' = enum_i + 1
       \/ /\ ordqueue_ended(queue, queue_next, collector = "alive")
          /\ curr_frame' = NoFrame
          /\ UNCHANGED <<queue, queue_next, enum_i>>
    /\ UNCHANGED <<env_vars, coll_vars, queue_iter, imp_next, screen, gif, kcalls,
                   make_result, q2_vars, write_queue_tx, write_queue_iter,
                   write_vars, pix_vars>>

\* next_frame = if let Some(a) = decode_iter.next() {Some(a?)} else {None}
make_frames_fetch ==
    /\ mpc = "fetch"
    /\ mpc' = "quantize"
    /\ \/ /\ ordqueue_ready(queue, queue_next)
          /\ next_frame' = decoded(ordqueue_item(queue, queue_next))
          /\ queue' = queue \ {ordqueue_item(queue, queue_next)}
          /\ queue_next' = queue_next + 1
          /\ enum_i' = enum_i + 1
       \/ /\ ordqueue_ended(queue, queue_next, collector = "alive")
          /\ next_frame' = NoFrame
          /\ UNCHANGED <<queue, queue_next, enum_i>>
    /\ UNCHANGED <<env_vars, coll_vars, queue_iter, image, curr_frame, imp_next,
                   screen, gif, kcalls, make_result, q2_vars, write_queue_tx,
                   write_queue_iter, write_vars, pix_vars>>

\* next.width() != image.width() || next.height() != image.height()
wrong_size(next, img) == next.w # img.w \/ next.h # img.h

\* format!("Frame {} has wrong size ({}x{}, expected {}x{})", i+1, ..)
WrongSizeError(img, next) ==
    [kind |-> "Frame has wrong size", frame |-> img.i + 1, w |-> next.w,
     h |-> next.h, ew |-> img.w, eh |-> img.h]

\* Faulty variant: the first frame is taken to have a predecessor too.
has_prev_frame_always(i) == i >= 0

\* let has_prev_frame = i > 0
has_prev_frame(i) == i > 0

\* Faulty variant: the first frame is not exempt from settings.quality.
quantize_quality_unclamped(has_bg) == settings.quality

\* Writer::quantize: 100 without a background, settings.quality with one
quantize_quality(has_bg) == IF has_bg THEN settings.quality ELSE 100

\* gif_dispose::Screen::new(image.width(), image.height(), ..)
NoScreen == [some |-> FALSE, w |-> 0, h |-> 0, frames |-> <<>>]
new_screen(img) == [some |-> TRUE, w |-> img.w, h |-> img.h, frames |-> <<>>]

\* The arguments of one call of Writer::quantize.
kernel_call(img, scr, nxt) ==
    [i |-> img.i, src |-> img.src,
     has_bg |-> has_prev_frame(img.i),
     bg |-> IF has_prev_frame(img.i) THEN scr.frames ELSE <<>>,
     quality |-> quantize_quality(has_prev_frame(img.i)),
     next |-> nxt]

\* Faulty variant: the frame gets the delay of the frame that follows it in the window.
GIFFrame_next_delay(img) ==
    [src |-> img.src, w |-> img.w, h |-> img.h, delay |-> curr_frame.delay]

\* GIFFrame {image: image8, pal: image8_pal, delay}
GIFFrame(img) == [src |-> img.src, w |-> img.w, h |-> img.h, delay |-> img.delay]
NoGif == [src |-> -1, w |-> 0, h |-> 0, delay |-> 0]

\* The loop body up to the kernel: the size check against next_frame, the
\* next-based importance map, the lazy screen, Self::quantize(..)?
make_frames_quantize ==
    /\ mpc = "quantize"
    /\ IF next_frame # NoFrame /\ wrong_size(next_frame, image)
       THEN /\ make_return(WrongSizeError(image, next_frame))
            /\ UNCHANGED <<imp_next, screen, gif, kcalls>>
       ELSE /\ imp_next' = IF next_frame # NoFrame THEN next_frame.src ELSE imp_next
            /\ screen' = IF screen.some THEN screen ELSE new_screen(image)
            /\ kcalls' = Append(kcalls, kernel_call(image, screen', imp_next'))
            /\ \/ /\ gif' = GIFFrame(image)
                  /\ mpc' = "push"
                  /\ UNCHANGED <<make_result, queue_iter, write_queue_tx>>
               \/ /\ make_return(Err("quantize"))
                  /\ gif' = gif
    /\ UNCHANGED <<env_vars, coll_vars, queue, queue_next, enum_i, image,
                   curr_frame, next_frame, q2_vars, write_queue_iter, write_vars,
                   pix_vars>>

\* Faulty variant: the error of the push is dropped and the loop goes on.
make_frames_push_unchecked ==
    /\ mpc = "push"
    /\ IF ~write_queue_iter
       THEN /\ mpc' = "blit"
            /\ UNCHANGED <<write_queue, make_result, queue_iter, write_queue_tx>>
       ELSE /\ ~ordqueue_full(write_queue)
            /\ write_queue' = write_queue \cup {[idx |-> image.i, frame |-> gif]}
            /\ mpc' = "blit"
            /\ UNCHANGED <<make_result, queue_iter, write_queue_tx>>
    /\ UNCHANGED <<env_vars, coll_vars, queue, queue_next, enum_i, image,
                   curr_frame, next_frame, imp_next, screen, gif, kcalls,
                   write_next, write_queue_iter, write_vars, pix_vars>>

\* write_queue.push(i, frame.clone())?
make_frames_push ==
    /\ mpc = "push"
    /\ IF ~write_queue_iter
       THEN /\ make_return(Err("queue closed"))
            /\ UNCHANGED write_queue
       ELSE /\ ~ordqueue_full(write_queue)
            /\ write_queue' = write_queue \cup {[idx |-> image.i, frame |-> gif]}
            /\ mpc' = "blit"
            /\ UNCHANGED <<make_result, queue_iter, write_queue_tx>>
    /\ UNCHANGED <<env_vars, coll_vars, queue, queue_next, enum_i, image,
                   curr_frame, next_frame, imp_next, screen, gif, kcalls,
                   write_next, write_queue_iter, write_vars, pix_vars>>

\* Faulty variant: the loop ends as soon as Q1 has no frame to refill
\* next_frame with, leaving the frame held in curr_frame unquantized.
make_frames_blit_short ==
    /\ mpc = "blit"
    /\ \/ /\ screen' = [screen EXCEPT !.frames = Append(@, gif.src)]
          /\ IF curr_frame # NoFrame /\ next_frame # NoFrame
             THEN /\ image' = curr_frame
                  /\ curr_frame' = next_frame
                  /\ next_frame' = NoFrame
                  /\ mpc' = "fetch"
                  /\ UNCHANGED <<make_result, queue_iter, write_queue_tx>>
             ELSE /\ make_return(Ok)
                  /\ UNCHANGED <<image, curr_frame, next_frame>>
       \/ /\ make_return(Err("blit"))
          /\ UNCHANGED <<screen, image, curr_frame, next_frame>>
    /\ UNCHANGED <<env_vars, coll_vars, queue, queue_next, enum_i, imp_next, gif,
                   kcalls, q2_vars, write_queue_iter, write_vars, pix_vars>>

\* screen.blit(..)?, then the loop head: while let Some(..) = curr_frame.take()
\* { curr_frame = next_frame.take(); .. }, and Ok(()) after the loop
make_frames_blit ==
    /\ mpc = "blit"
    /\ \/ /\ screen' = [screen EXCEPT !.frames = Append(@, gif.src)]
          /\ IF curr_frame # NoFrame
             THEN /\ image' = curr_frame
                  /\ curr_frame' = next_frame
                  /\ next_frame' = NoFrame
                  /\ mpc' = "fetch"
                  /\ UNCHANGED <<make_result, queue_iter, write_queue_tx>>
             ELSE /\ make_return(Ok)
                  /\ UNCHANGED <<image, curr_frame, next_frame>>
       \/ /\ make_return(Err("blit"))
          /\ UNCHANGED <<screen, image, curr_frame, next_frame>>
    /\ UNCHANGED <<env_vars, coll_vars, queue, queue_next, enum_i, imp_next, gif,
                   kcalls, q2_vars, write_queue_iter, write_vars, pix_vars>>

----------------------------------------------------------------------------
\* Writer::write and Writer::write_frames (the calling thread)

q1_vars == <<queue, queue_next>>
make_vars == <<enum_i, image, curr_frame, next_frame, imp_next, screen, gif,
               kcalls, make_result>>

\* What the sink receives: the encoder's header, the extension, a frame.
EncoderNew(f) == [ev |-> "encoder", src |-> -1, w |-> f.w, h |-> f.h, delay |-> 0]
Repetitions == [ev |-> "repetitions", src |-> -1, w |-> 0, h |-> 0, delay |-> 0]
WrittenFrame(f) == [ev |-> "frame", src |-> f.src, w |-> f.w, h |-> f.h,
                    delay |-> f.delay]

\* ordqueue::new(4) and thread::spawn(make_frames)
write_start ==
    /\ wpc = "new"
    /\ mpc = "unspawned"
    /\ wpc' = "next"
    /\ mpc' = "first"
    /\ UNCHANGED <<env_vars, coll_vars, q1_vars, queue_iter, make_vars, q2_vars,
                   write_queue_tx, write_queue_iter, wframe, enc, out, increases,
                   result, pix_vars>>

\* Faulty variant: the reporter is told twice per frame.
reporter_increase_twice(n) == n + 2

\* reporter.increase()
reporter_increase(n) == n + 1

\* for f in write_queue_iter { ..; reporter.increase(); and the loop's end:
\* write_frames returns Ok(()) and its write_queue_iter is dropped
write_frames_next ==
    /\ wpc = "next"
    /\ \/ /\ ordqueue_ready(write_queue, write_next)
          /\ wframe' = ordqueue_item(write_queue, write_next).frame
          /\ write_queue' = write_queue \ {ordqueue_item(write_queue, write_next)}
          /\ write_next' = write_next + 1
          /\ increases' = reporter_increase(increases)
          /\ wpc' = "emit"
          /\ UNCHANGED write_queue_iter
       \/ /\ ordqueue_ended(write_queue, write_next, write_queue_tx)
          /\ write_queue_iter' = FALSE
          /\ wpc' = "join"
          /\ UNCHANGED <<wframe, write_queue, write_next, increases>>
    /\ UNCHANGED <<env_vars, coll_vars, q1_vars, queue_iter, mpc, make_vars,
                   write_queue_tx, enc, out, result, pix_vars>>

\* Faulty variant: the extension is written whatever settings.once says.
encoder_init_always_repeats(f) ==
    IF enc = "Uninit" THEN <<EncoderNew(f), Repetitions>> ELSE <<>>

\* The sink's bytes after the encoder is set up for frame f:
\* Encoder::new(..)? and, unless settings.once, enc.write_extension(..)?
encoder_init(f) ==
    IF enc = "Uninit"
    THEN IF ~settings.once
         THEN <<EncoderNew(f), Repetitions>>
         ELSE <<EncoderNew(f)>>
    ELSE <<>>

\* The rest of the loop body: the encoder is set up on the first frame, then
\* enc.write_frame(..)?; a sink error at any of the calls ends write at once.
write_frames_emit ==
    /\ wpc = "emit"
    /\ \/ /\ out' = out \o encoder_init(wframe) \o <<WrittenFrame(wframe)>>
          /\ enc' = "Init"
          /\ wpc' = "next"
          /\ UNCHANGED <<result, write_queue_iter>>
       \/ \E n \in 0 .. Len(encoder_init(wframe)) :
             \* the first n calls succeed and the one after them fails
             /\ out' = out \o SubSeq(encoder_init(wframe), 1, n)
             /\ enc' = enc
             /\ result' = Err("io")
             /\ write_queue_iter' = FALSE
             /\ wpc' = "returned"
    /\ UNCHANGED <<env_vars, coll_vars, q1_vars, queue_iter, mpc, make_vars,
                   q2_vars, write_queue_tx, wframe, increases, pix_vars>>

\* Faulty variant: the joined thread's error is dropped.
write_result_ignored(joined) == Ok

\* make_thread.join().unwrap()?; Ok(()): the thread's error, or Ok
write_result(joined) == IF joined.kind # "Ok" THEN joined ELSE Ok

\* make_thread.join()
write_join ==
    /\ wpc = "join"
    /\ mpc = "done"
    /\ result' = write_result(make_result)
    /\ wpc' = "returned"
    /\ UNCHANGED <<env_vars, coll_vars, q1_vars, queue_iter, mpc, make_vars,
                   q2_vars, write_queue_tx, write_queue_iter, wframe, enc, out,
                   increases, pix_vars>>

----------------------------------------------------------------------------
\* The pipeline

\* new(settings): the Collector and the Writer around a fresh queue
new ==
    /\ collector = "alive"
    /\ submitted = {}
    /\ pushing = -1
    /\ rejected = {}
    /\ out_of_order = FALSE
    /\ queue = {}
    /\ queue_next = 0
    /\ queue_iter = TRUE
    /\ mpc = "unspawned"
    /\ enum_i = 0
    /\ image = NoFrame
    /\ curr_frame = NoFrame
    /\ next_frame = NoFrame
    /\ imp_next = -1
    /\ screen = NoScreen
    /\ gif = NoGif
    /\ kcalls = <<>>
    /\ make_result = Pending
    /\ write_queue = {}
    /\ write_next = 0
    /\ write_queue_tx = TRUE
    /\ write_queue_iter = TRUE
    /\ wpc = "new"
    /\ wframe = NoGif
    /\ enc = "Uninit"
    /\ out = <<>>
    /\ increases = 0
    /\ result = Pending

Init ==
    /\ settings \in SettingsSet
    /\ input \in Inputs
    /\ new
    /\ pa = Black
    /\ pb = Black
    /\ diff = -1
    /\ map_at_rest

Next ==
    \/ \E k \in Indices : add_frame_rgba(k)
    \/ add_frame_wake
    \/ drop_collector
    \/ write_start
    \/ make_frames_first
    \/ make_frames_second
    \/ make_frames_fetch
    \/ make_frames_quantize
    \/ make_frames_push
    \/ make_frames_blit
    \/ write_frames_next
    \/ write_frames_emit
    \/ write_join

Spec == Init /\ [][Next]_vars

----------------------------------------------------------------------------
\* colordiff, on its own

\* 255*255*6
MaxDiff == 255 * 255 * 6

\* (a.r as i16 - b.r as i16) squared in i32, as u32: the channels are u8, so
\* the difference fits i16, the square is at most 255*255, and the weighted
\* sum at most 255*255*6; no width is exceeded
sqdiff(x, y) == (x - y) * (x - y)

\* Faulty variant: colordiff without its transparency gate.
colordiff_ungated(a, b) ==
    sqdiff(a.r, b.r) * 2 + sqdiff(a.g, b.g) * 3 + sqdiff(a.b, b.b)

\* fn colordiff(a: RGBA8, b: RGBA8) -> u32
colordiff(a, b) ==
    IF a.a = 0 \/ b.a = 0
    THEN MaxDiff
    ELSE sqdiff(a.r, b.r) * 2 + sqdiff(a.g, b.g) * 3 + sqdiff(a.b, b.b)

\* RGBA8 pixels: the ends of each channel and a value next to one
Channel == {0, 1, 255}
Pixels == [r : Channel, g : Channel, b : Channel, a : Channel]

InitColordiff ==
    /\ settings = [quality |-> 1, once |-> FALSE]
    /\ input = [k \in Indices |-> RawFrame(k, 8, 8, 10 + k)]
    /\ new
    /\ pa \in Pixels
    /\ pb \in Pixels
    /\ diff = -1
    /\ map_at_rest

colordiff_call ==
    /\ diff = -1
    /\ diff' = colordiff(pa, pb)
    /\ UNCHANGED <<pa, pb, px, prior, istep, resize_io, pal_io, pipe_vars>>

NextColordiff == colordiff_call

SpecColordiff == InitColordiff /\ [][NextColordiff]_vars

----------------------------------------------------------------------------
\* The importance map, one cell at a time

Min(x, y) == IF x < y THEN x ELSE y

\* `as u8` and `as u16`
U8(x) == x % 256
U16(x) == x % 65536

\* 255 - (colordiff(a,b) / (255*255*6/170)) as u8, in u8
next_importance(a, b) == U8(255 - U8(colordiff(a, b) \div (MaxDiff \div 170)))

\* let q = 100 - settings.quality as u32; let min_diff = 80 + q * q
min_diff == 80 + (100 - settings.quality) * (100 - settings.quality)

\* Faulty variant: the square is not clipped to 256 before the u16 product.
prev_importance_unclipped(p, a, b) ==
    IF colordiff(a, b) < min_diff
    THEN 0
    ELSE U8(U16(U16((colordiff(a, b) \div 32) * (colordiff(a, b) \div 32)) * p)
            \div 256)

\* Faulty variant: a cell below the threshold keeps its value.
prev_importance_kept(p, a, b) ==
    IF colordiff(a, b) < min_diff
    THEN p
    ELSE U8(U16(U16(Min((colordiff(a, b) \div 32) * (colordiff(a, b) \div 32), 256))
                * p) \div 256)

\* *px = if diff < min_diff {0} else {let t = diff / 32;
\*        ((t * t).min(256) as u16 * u16::from(*px) / 256) as u8}
\* with a the screen's pixel, b the image's and p the cell's value so far;
\* t * t is at most (255*255*6/32)^2 < 2^32
prev_importance(p, a, b) ==
    IF colordiff(a, b) < min_diff
    THEN 0
    ELSE U8(U16(U16(Min((colordiff(a, b) \div 32) * (colordiff(a, b) \div 32), 256))
                * p) \div 256)

\* Pixels whose distances fall on both sides of min_diff (80 at quality 100,
\* 9881 at quality 1) and of the clip at (d/32)^2 = 256
FinePixels == [r : {0, 4, 6, 70, 255}, g : {0, 1, 4, 255}, b : {0, 2, 8, 9, 255},
               a : {0, 1, 255}]
CoarsePixels == [r : {0, 255}, g : {0}, b : {0}, a : {0, 255}]
Priors == {0, 1, 128, 255}

InitImportance ==
    /\ settings \in [quality : {1, 50, 100}, once : {FALSE}]
    /\ input = [k \in Indices |-> RawFrame(k, 8, 8, 10 + k)]
    /\ new
    /\ pa \in CoarsePixels
    /\ pb \in FinePixels
    /\ diff = -1
    /\ px \in Priors
    /\ prior = px
    /\ istep = "none"
    /\ resize_io = NoResize
    /\ pal_io = NoPalette

\* The cell is refilled from the image's pixel pa and the next frame's pb.
importance_next ==
    /\ istep = "none"
    /\ prior' = px
    /\ px' = next_importance(pb, pa)
    /\ diff' = colordiff(pb, pa)
    /\ istep' = "next"
    /\ UNCHANGED <<pa, pb, resize_io, pal_io, pipe_vars>>

\* The cell is attenuated from the screen's pixel pb and the image's pa.
importance_prev ==
    /\ istep \in {"none", "next"}
    /\ prior' = px
    /\ px' = prev_importance(px, pb, pa)
    /\ diff' = colordiff(pb, pa)
    /\ istep' = "prev"
    /\ UNCHANGED <<pa, pb, resize_io, pal_io, pipe_vars>>

NextImportance == importance_next \/ importance_prev

SpecImportance == InitImportance /\ [][NextImportance]_vars

----------------------------------------------------------------------------
\* Collector::resized, on its own

InitResize ==
    /\ settings = [quality |-> 1, once |-> FALSE]
    /\ input = [k \in Indices |-> RawFrame(k, 8, 8, 10 + k)]
    /\ new
    /\ pa = Black
    /\ pb = Black
    /\ diff = -1
    /\ px = 255
    /\ prior = 255
    /\ istep = "none"
    /\ resize_io \in [w : 1 .. MaxDim, h : 1 .. MaxDim, width : Targets,
                      height : Targets, done : {FALSE}, ow : {0}, oh : {0}]
    /\ pal_io = NoPalette

resized_call ==
    /\ ~resize_io.done
    /\ resize_io' =
          [resize_io EXCEPT
             !.done = TRUE,
             !.ow = resized_size(resize_io.w, resize_io.h, resize_io.width,
                                 resize_io.height)[1],
             !.oh = resized_size(resize_io.w, resize_io.h, resize_io.width,
                                 resize_io.height)[2]]
    /\ UNCHANGED <<pa, pb, diff, px, prior, istep, pal_io, pipe_vars>>

NextResize == resized_call

SpecResize == InitResize /\ [][NextResize]_vars

----------------------------------------------------------------------------
\* The transparent index of a palette, as write_frames and make_frames derive it

MaxPal == 3

\* An opaque colour, the fixed colour (0,0,0,0) make_frames adds to the
\* kernel's input, and another colour whose alpha is 0.
PalEntries == {[r |-> 255, g |-> 0, b |-> 0, a |-> 255],
               [r |-> 0, g |-> 0, b |-> 0, a |-> 0],
               [r |-> 71, g |-> 112, b |-> 76, a |-> 0]}

Palettes == UNION {[1 .. n -> PalEntries] : n \in 0 .. MaxPal}

\* for (i, p) in pal.into_iter().enumerate()
\*     { if p.a == 0 { transparent_index = Some(i as u8); } .. }
RECURSIVE write_transparent_index(_, _, _)
write_transparent_index(pal, i, acc) ==
    IF i >= Len(pal) THEN acc
    ELSE write_transparent_index(pal, i + 1,
             IF pal[i + 1].a = 0 THEN Some(U8(i)) ELSE acc)

\* image8_pal.iter().position(|p| p.a == 0).map(|i| i as u8)
RECURSIVE position(_, _)
position(pal, i) ==
    IF i >= Len(pal) THEN None
    ELSE IF pal[i + 1].a = 0 THEN Some(i)
    ELSE position(pal, i + 1)

blit_transparent_index(pal) ==
    LET at == position(pal, 0)
    IN IF at.some THEN Some(U8(at.v)) ELSE None

InitPalette ==
    /\ settings = [quality |-> 1, once |-> FALSE]
    /\ input = [k \in Indices |-> RawFrame(k, 8, 8, 10 + k)]
    /\ new
    /\ pa = Black
    /\ pb = Black
    /\ diff = -1
    /\ px = 255
    /\ prior = 255
    /\ istep = "none"
    /\ resize_io = NoResize
    /\ pal_io \in [pal : Palettes, writer : {None}, blit : {None},
                   wdone : {FALSE}, bdone : {FALSE}]

\* make_frames derives the index it hands to screen.blit.
make_frames_transparent_index ==
    /\ ~pal_io.bdone
    /\ pal_io' = [pal_io EXCEPT !.bdone = TRUE,
                                !.blit = blit_transparent_index(pal_io.pal)]
    /\ UNCHANGED <<pa, pb, diff, px, prior, istep, resize_io, pipe_vars>>

\* write_frames derives the index it declares in the frame's header; the
\* frame reaches it only after make_frames built it.
write_frames_transparent_index ==
    /\ pal_io.bdone
    /\ ~pal_io.wdone
    /\ pal_io' = [pal_io EXCEPT !.wdone = TRUE,
                                !.writer = write_transparent_index(pal_io.pal, 0, None)]
    /\ UNCHANGED <<pa, pb, diff, px, prior, istep, resize_io, pipe_vars>>

NextPalette == make_frames_transparent_index \/ write_frames_transparent_index

SpecPalette == InitPalette /\ [][NextPalette]_vars

----------------------------------------------------------------------------
\* Properties

\* The frames the sink received, in the order it received them.
IsFrame(e) == e.ev = "frame"
Written == SelectSeq(out, IsFrame)

\* The indices 0..N-1 for some N >= 1 have all been handed to add_frame_rgba.
FullSequence == \E n \in 1 .. MaxN : submitted = 0 .. (n - 1)

\* C1: whatever the order of submission, the k-th frame the Writer emits is
\* the frame submitted with index k, with the delay submitted with index k
\* (so no index precedes a smaller one), and when write has returned Ok for
\* the indices 0..N-1 exactly N frames were emitted.
C1_InOrder ==
    /\ \A k \in 1 .. Len(Written) :
          /\ Written[k].src = k - 1
          /\ Written[k].delay = input[k - 1].delay
          /\ (k - 1) \in submitted
    /\ (result = Ok /\ FullSequence) => Len(Written) = Cardinality(submitted)

C1_Witness ==
    /\ result = Ok
    /\ out_of_order
    /\ submitted = Indices
    /\ Len(Written) = MaxN
    /\ \E k \in Indices : input[k].delay # input[0].delay

\* C2: when the whole index sequence is submitted the pipeline never gets
\* stuck: a push that waits for room is always followed by some step of
\* the pipeline, so it returns in the end.
C2_NeverStuck == (pushing # -1 /\ FullSequence) => ENABLED Next

\* The dimensions of frame k differ from frame 0's, those before k do not.
FirstOddSized(k) ==
    /\ k >= 1
    /\ wrong_size(input[k], input[0])
    /\ \A j \in 0 .. (k - 1) : ~wrong_size(input[j], input[0])

\* C3: when frame k >= 1 is the first whose size differs from frame 0's and
\* neither the kernel, the blit nor the sink fails, write returns the
\* wrong-size error naming frame k+1, its size and the expected size.
C3_WrongSizeNamesFrame ==
    \A k \in Indices :
        (/\ FirstOddSized(k)
         /\ (0 .. k) \subseteq submitted
         /\ rejected = {}
         /\ wpc = "returned"
         /\ result.kind \in {"Ok", "Frame has wrong size"})
        => result = [kind |-> "Frame has wrong size", frame |-> k + 1,
                     w |-> input[k].w, h |-> input[k].h,
                     ew |-> input[0].w, eh |-> input[0].h]

C5_EmptyInput ==
    (collector = "dropped" /\ submitted = {}) =>
        /\ enc = "Uninit"
        /\ out = <<>>
        /\ increases = 0
        /\ kcalls = <<>>
        /\ wpc = "returned" => result = Err("Found no usable frames to encode")

C5_Witness ==
    /\ collector = "dropped"
    /\ submitted = {}
    /\ wpc = "returned"
    /\ result.kind = "Found no usable frames to encode"

\* C6: when make_frames fails at frame i with a kernel failure or a wrong
\* size and the Writer meets no error of its own, write returns that very
\* error, after the frames 0..i-1 were written in order.
C6_QuantizerErrorSurfaces ==
    (/\ wpc = "returned"
     /\ make_result.kind \in {"quantize", "Frame has wrong size"}
     /\ result.kind # "io")
    => /\ result = make_result
       /\ result # Ok
       /\ Len(Written) = image.i
       /\ \A k \in 1 .. Len(Written) : Written[k].src = k - 1
       /\ write_queue = {}

C6_Witness ==
    /\ wpc = "returned"
    /\ make_result.kind = "quantize"
    /\ result = make_result
    /\ image.i >= 2
    /\ Len(Written) = image.i

\* C7 as stated: increase() only follows the frame's emission, so its calls
\* never outnumber the frames written.
C7_IncreaseAfterWrite == increases <= Len(Written)

\* C7 as amended: increase() is called once for every frame taken from Q2,
\* before that frame is written: its calls are the frames written, or one
\* more while a frame is being written or after its write failed, and
\* they equal the frames written when write returns Ok.
C7_IncreaseBeforeWrite ==
    /\ increases = write_next
    /\ increases \in {Len(Written), Len(Written) + 1}
    /\ increases = Len(Written) + 1 <=> (wpc = "emit" \/ result.kind = "io")
    /\ result = Ok => increases = Len(Written)

C7_Witness ==
    /\ wpc = "emit"
    /\ increases = 3
    /\ Len(Written) = 2

\* The repetition extensions the sink received.
IsRepetitions(e) == e.ev = "repetitions"
Extensions == SelectSeq(out, IsRepetitions)

\* C8: with once the sink receives no repetition extension; without it the
\* stream of a written frame holds exactly one, right after the encoder
\* set up with the first frame's size and before the first frame.
C8_Repetitions ==
    /\ settings.once => Extensions = <<>>
    /\ Len(Extensions) <= 1
    /\ Len(Written) >= 1 =>
          /\ out[1] = EncoderNew(input[0])
          /\ ~settings.once => out[2] = Repetitions
          /\ \A j \in 1 .. Len(out) :
                j > (IF settings.once THEN 1 ELSE 2) => out[j].ev = "frame"

C8_Witness ==
    /\ ~settings.once
    /\ result = Ok
    /\ Len(Written) >= 3
    /\ Len(Extensions) = 1

\* C9: the kernel gets maximum quality 100 for the frame with index 0 and
\* settings.quality for every later one; 100 is forced exactly for the call
\* without a background.
C9_FirstFrameQuality ==
    \A j \in 1 .. Len(kcalls) :
        /\ kcalls[j].i = j - 1
        /\ kcalls[j].src = j - 1
        /\ kcalls[j].has_bg <=> kcalls[j].i > 0
        /\ kcalls[j].quality = IF kcalls[j].i = 0 THEN 100 ELSE settings.quality

C9_Witness ==
    /\ settings.quality = 1
    /\ Len(kcalls) >= 2
    /\ kcalls[1].quality = 100
    /\ kcalls[2].quality = 1

\* The r, g and b of the two pixels are each the same.
same_rgb(a, b) == a.r = b.r /\ a.g = b.g /\ a.b = b.b

\* C10 as stated: colordiff is 0 exactly when the pixels have the same r, g
\* and b with both alphas non-zero, or both have alpha 0.
C10_ZeroIffSameOrBothClear ==
    diff # -1 =>
        (diff = 0 <=> \/ (same_rgb(pa, pb) /\ pa.a # 0 /\ pb.a # 0)
                      \/ (pa.a = 0 /\ pb.a = 0))

\* C10 as amended: colordiff is 0 exactly when the pixels have the same r, g
\* and b and both alphas are non-zero; two pixels of alpha 0 are at the
\* maximal distance 255*255*6.
C10_ZeroIffSameOpaque ==
    diff # -1 =>
        /\ diff = 0 <=> (same_rgb(pa, pb) /\ pa.a # 0 /\ pb.a # 0)
        /\ (pa.a = 0 /\ pb.a = 0) => diff = 255 * 255 * 6

C10_Witness ==
    /\ diff = 0
    /\ same_rgb(pa, pb)
    /\ pa.a # pb.a
    /\ pa.g = 255

\* C11: every value of the importance map is in 0..255 and no 8-, 16-
\* or 32-bit intermediate wraps: the next-based value is
\* 255 - min(255, d*170/(255*255*6)) with the quotient d/(255*255*6/170)
\* fitting u8 and never above 255; the previous-based value is 0 below
\* 80 + (100-quality)^2 and min(256, (d/32)^2) * p / 256 otherwise, with
\* the product fitting u16 and the quotient fitting u8.
C11_ImportanceInRange ==
    /\ px \in 0 .. 255
    /\ istep = "next" =>
          /\ diff \div ((255 * 255 * 6) \div 170) <= 255
          /\ px = 255 - Min(255, (diff * 170) \div (255 * 255 * 6))
    /\ istep = "prev" =>
          /\ (diff \div 32) * (diff \div 32) <= 2147483647
          /\ Min(256, (diff \div 32) * (diff \div 32)) * prior <= 65535
          /\ (Min(256, (diff \div 32) * (diff \div 32)) * prior) \div 256 <= 255
          /\ px = IF diff < 80 + (100 - settings.quality) * (100 - settings.quality)
                  THEN 0
                  ELSE (Min(256, (diff \div 32) * (diff \div 32)) * prior) \div 256

C11_Witness ==
    /\ istep = "prev"
    /\ diff = 81
    /\ prior = 255
    /\ px = 3
    /\ settings.quality = 100

\* C12: without settings.width the frame keeps its size, whatever
\* settings.height is; with width and height the size returned is
\* (min(width, W), min(height, H)); with width alone it is tw = min(width, W)
\* by H*tw/W; the size returned never exceeds the source's either way.
C12_ResizePolicy ==
    resize_io.done =>
        LET W == resize_io.w
            H == resize_io.h
            tw == Min(resize_io.width.v, W)
        IN /\ ~resize_io.width.some => (resize_io.ow = W /\ resize_io.oh = H)
           /\ (resize_io.width.some /\ resize_io.height.some) =>
                 /\ resize_io.ow = tw
                 /\ resize_io.oh = Min(resize_io.height.v, H)
           /\ (resize_io.width.some /\ ~resize_io.height.some) =>
                 /\ resize_io.ow = tw
                 /\ resize_io.oh = (H * tw) \div W
           /\ resize_io.ow <= W
           /\ resize_io.oh <= H

C12_Witness ==
    /\ resize_io.done
    /\ resize_io.w = 3
    /\ resize_io.h = 4
    /\ resize_io.width = Some(2)
    /\ resize_io.height = None
    /\ resize_io.ow = 2
    /\ resize_io.oh = 2

\* C15: the transparent index write_frames declares for a frame is the
\* index make_frames used when it blitted that frame, whatever the palette.
C15_SameTransparentIndex ==
    (pal_io.wdone /\ pal_io.bdone) => pal_io.writer = pal_io.blit

\* C13: when the kernel is called for the frame with index i and a frame
\* i+1 was submitted, the importance map was filled from frame i+1; it is
\* left as it was only when there is no frame i+1.
C13_NextIsSuccessor ==
    \A j \in 1 .. Len(kcalls) :
        /\ (kcalls[j].i + 1) \in (submitted \ rejected) =>
              kcalls[j].next = kcalls[j].i + 1
        /\ (kcalls[j].i + 1) \notin submitted =>
              kcalls[j].next = (IF j = 1 THEN -1 ELSE kcalls[j - 1].next)

\* The frames pushed to Q2 so far: those taken by the Writer and those buffered.
Pushed == (0 .. (write_next - 1)) \cup {it.idx : it \in write_queue}

\* C14: the kernel call for frame i gets no background when i = 0 and
\* otherwise the screen holding the blits of the frames 0..i-1, once each
\* and in order; a frame is blitted only after it was pushed to Q2, and the
\* screen never holds the frame being quantized or pushed, nor a later one.
C14_BackgroundIsPrefix ==
    /\ \A j \in 1 .. Len(kcalls) :
          /\ kcalls[j].i = j - 1
          /\ kcalls[j].has_bg <=> j > 1
          /\ kcalls[j].bg = [k \in 1 .. (j - 1) |-> k - 1]
    /\ \A k \in 1 .. Len(screen.frames) :
          /\ screen.frames[k] = k - 1
          /\ (k - 1) \in Pushed
    /\ Len(screen.frames) <= Len(kcalls)
    /\ mpc \in {"push", "blit"} => Len(screen.frames) = image.i
    /\ mpc = "blit" => image.i \in Pushed
    /\ mpc \in {"fetch", "quantize"} => Len(screen.frames) = image.i

C14_Witness ==
    /\ Len(kcalls) = 4
    /\ kcalls[4].bg = <<0, 1, 2>>
    /\ mpc = "push"
    /\ screen.frames = <<0, 1, 2>>

C17_ReturnedImpliesJoined ==
    wpc = "returned" => mpc = "done"

\* A push is never left waiting on a queue whose consumer end is gone.
NoPushBlockedOnClosed ==
    /\ (mpc = "push" /\ ~write_queue_iter) => ENABLED make_frames_push
    /\ (pushing # -1 /\ ~queue_iter) => ENABLED add_frame_wake

\* What a push does once the consumer end of its queue is gone.
PushOnClosedFails ==
    /\ (~write_queue_iter /\ mpc = "push" /\ mpc' # "push") =>
          /\ mpc' = "done"
          /\ make_result'.kind = "queue closed"
    /\ ~write_queue_iter => write_queue' = write_queue
    /\ wpc = "returned" => out' = out
    /\ ~queue_iter =>
          /\ queue' = queue
          /\ (submitted' \ submitted) \subseteq rejected'
          /\ pushing' \in {-1, pushing}
          /\ (pushing # -1 /\ pushing' = -1) => pushing \in rejected'

\* C18: once the consumer end of Q2 is gone, make_frames' push to Q2, blocked
\* or not, returns an error, make_frames returns that error and nothing more
\* is pushed or written; once the consumer end of Q1 is gone, every
\* add_frame_rgba call, blocked or later, returns an error without blocking.
C18_CancelUnblocks ==
    /\ []NoPushBlockedOnClosed
    /\ [][PushOnClosedFails]_vars

C18_Witness ==
    /\ result.kind = "io"
    /\ make_result.kind = "queue closed"
    /\ rejected # {}
    /\ pushing = -1

\* C19: in every reachable state at most 4 raw frames are buffered in Q1
\* and at most 4 quantized frames are buffered in Q2.
C19_AtMostFourBuffered ==
    /\ Cardinality(queue) <= 4
    /\ Cardinality(write_queue) <= 4

C19_Witness ==
    /\ Cardinality(write_queue) = 4
    /\ mpc = "push"
    /\ write_queue_iter
    /\ image.i = 4

\* g is the first index never submitted, and some index above it was.
Gap(g) ==
    /\ g \notin submitted
    /\ (0 .. (g - 1)) \subseteq submitted
    /\ \E k \in submitted : k > g

\* C20: when the Collector was dropped leaving a gap at index g, the
\* pipeline is never stuck before write returns; make_frames receives
\* exactly the frames below g and then the end of the stream; no frame above
\* the gap is quantized or written; and write returns Ok after writing
\* exactly the frames 0..g-1 in order, or the empty-input error when g = 0.
C20_GapEndsStream ==
    \A g \in Indices :
        (collector = "dropped" /\ Gap(g)) =>
            /\ wpc = "returned" \/ ENABLED Next
            /\ enum_i <= g
            /\ \A j \in 1 .. Len(kcalls) : kcalls[j].src < g
            /\ \A k \in 1 .. Len(Written) : Written[k].src = k - 1 /\ k - 1 < g
            /\ make_result = Ok => (enum_i = g /\ Len(kcalls) = g)
            /\ (wpc = "returned" /\ g = 0) =>
                  (result = NoFramesError /\ out = <<>>)
            /\ (wpc = "returned" /\ result = Ok) =>
                  (g > 0 /\ Len(Written) = g /\ mpc = "done")

C20_Witness ==
    /\ collector = "dropped"
    /\ submitted = {0, 1, 3, 4}
    /\ wpc = "returned"
    /\ result = Ok
    /\ Len(Written) = 2
    /\ Cardinality(queue) = 2

====
